---- MODULE Spec2Model ----
(***************************************************************************)
(* debugtrace: Trace<T>, a value wrapper that records the call stack at    *)
(* its construction when tracing is compiled in (src/src/lib.rs), and the  *)
(* build script that selects the mode from the cargo profile               *)
(* (src/build.rs).                                                         *)
(*                                                                         *)
(* The client program is modelled with two wrapper variables, "a" and "b", *)
(* on which it runs the crate's operations one at a time.  `ret` holds     *)
(* what the last operation was given and what it returned.                 *)
(*                                                                         *)
(* Option<X> is modelled as a sequence: None is <<>>, Some(x) is <<x>>.    *)
(* Strings are TLA+ strings, byte strings are tuples of byte values.       *)
(***************************************************************************)
EXTENDS Integers, Sequences, FiniteSets, TLC

VARIABLES
    profile,     \* cargo's PROFILE, read by build.rs
    backtrace,   \* whether the cargo feature "backtrace" is set
    symtab,      \* the process's symbol information, read by backtrace::resolve
    wrappers,    \* the client's Trace<T> variables: None when not holding one
    ret          \* the last operation: its name, inputs and result

vars == <<profile, backtrace, symtab, wrappers, ret>>

-----------------------------------------------------------------------------
(* Bounds *)

\* deepest client call stack (frames above Trace::new) the model builds
MaxDepth == 2

\* the same, where only construction, formatting and unwrapping are run
MaxFmtDepth == 11

\* the payload type T is modelled as the integers 0..MaxVal
MaxVal == 1

Values == 0 .. MaxVal

\* the payloads where only construction, formatting and unwrapping are run
FmtValues == Values \cup {123}

\* the client's wrapper variables
Slots == {"a", "b"}

\* instruction pointers of the client code that calls Trace::new / From::from
CallSites == {3, 4}

\* instruction pointer of the j-th frame outside the calling function
OuterIp(j) == 4 + j

Profiles == {"debug", "test", "release", "bench"}

\* states of a Hasher the client may hand to Hash::hash: what was fed so far
HasherStates == {<<>>, <<1>>}

None == <<>>
Some(x) == <<x>>

-----------------------------------------------------------------------------
(* src/build.rs and the cfg gates of src/src/lib.rs *)

\* variant: the "test" arm left out
EnableTraceDebugOnly(p) == p = "debug"

\* build.rs: match on PROFILE
EnableTrace(p) ==
    CASE p = "debug" -> TRUE
      [] p = "test"  -> TRUE
      [] OTHER       -> FALSE

\* build.rs prints cargo:rustc-cfg=feature="debug_print_trace" when enabled
debug_print_trace == EnableTrace(profile)

\* #[cfg(any(feature="debug_print_trace", feature="backtrace"))] mod trace
TraceEnabled == debug_print_trace \/ backtrace

\* variant: resolve gated like the module, not by the feature alone
ResolveAvailableWhenTracing == TraceEnabled

\* #[cfg(feature="backtrace")] pub fn resolve
ResolveAvailable == backtrace

-----------------------------------------------------------------------------
(* The call stack and backtrace::trace *)

\* the frame of backtrace::trace itself and the frame of Trace::new
TraceEntryIp == 1
NewIp == 2

Frame(a) == [ip |-> a]

\* The stack at the moment the walk starts, innermost first: backtrace::trace,
\* Trace::new (never inlined), the function that called new (From::from is
\* inline(always) and has no frame of its own), then d-1 outer frames.
Stack(site, d) ==
    <<Frame(TraceEntryIp), Frame(NewIp), Frame(site)>>
        \o [j \in 1 .. (d - 1) |-> Frame(OuterIp(j))]

\* the frames the platform's unwinder reports: the first k of the stack
Reported(site, d, k) == SubSeq(Stack(site, d), 1, k)

\* variant: skips one frame only
CallbackSkipOne(st, frame) ==
    [v |-> IF st.n > 0 THEN Append(st.v, frame.ip) ELSE st.v,
     n |-> st.n + 1,
     go |-> TRUE]

\* variant: returns false once a frame was recorded
CallbackStopAfterFirst(st, frame) ==
    [v |-> IF st.n > 1 THEN Append(st.v, frame.ip) ELSE st.v,
     n |-> st.n + 1,
     go |-> ~(st.n > 1)]

\* the closure given to backtrace::trace in Trace::new; st is its captured
\* environment (v, n), go is the value it returns
Callback(st, frame) ==
    [v |-> IF st.n > 1 THEN Append(st.v, frame.ip) ELSE st.v,
     n |-> st.n + 1,
     go |-> TRUE]

\* backtrace::trace: calls cb on each frame in turn until it returns false
RECURSIVE Walk(_, _, _)
Walk(frames, i, st) ==
    IF i > Len(frames) THEN st
    ELSE LET nx == Callback(st, frames[i])
         IN  IF nx.go THEN Walk(frames, i + 1, nx) ELSE nx

\* the body of the trace-enabled Trace::new up to the construction
Capture(frames) == Walk(frames, 1, [v |-> <<>>, n |-> 0, go |-> TRUE]).v

-----------------------------------------------------------------------------
(* Trace<T> *)

\* variant: the payload is not stored
TraceNewDefault(t, frames) ==
    IF TraceEnabled
    THEN [w |-> [val |-> 0, trace |-> Capture(frames)], walked |-> TRUE]
    ELSE [w |-> [val |-> 0], walked |-> FALSE]

\* Trace::new in the build's variant of mod trace; walked tells whether
\* backtrace::trace was called
TraceNew(t, frames) ==
    IF TraceEnabled
    THEN [w |-> [val |-> t, trace |-> Capture(frames)], walked |-> TRUE]
    ELSE [w |-> [val |-> t], walked |-> FALSE]

\* From<T>::from, inlined into its caller
TraceFrom(t, frames) == TraceNew(t, frames)

\* Trace::unwrap
TraceUnwrap(w) == w.val

\* Deref::deref
TraceDeref(w) == w.val

\* DerefMut::deref_mut followed by the client's store through the reference
TraceDerefMutStore(w, t) == [w EXCEPT !.val = t]

\* variant: the operation takes the captured sequence out of the wrapper
SharedBorrowDrain(w) ==
    IF "trace" \in DOMAIN w THEN [w EXCEPT !.trace = <<>>] ELSE w

\* an operation taking &self / &Trace<T> leaves the wrapper as it was
SharedBorrow(w) == w

\* variant: clone implemented as Trace::new(self.0.clone())
TraceCloneRecapture(w, frames) ==
    [w |-> TraceNew(w.val, frames).w, walked |-> TraceEnabled]

\* #[derive(Clone)]: every field is cloned; no stack walk
TraceClone(w, frames) == [w |-> w, walked |-> FALSE]

\* Ord::cmp of the payload type
OrdCmp(x, y) == IF x < y THEN "Less" ELSE IF x = y THEN "Equal" ELSE "Greater"

\* PartialOrd::partial_cmp of the payload type
PartialCmpT(x, y) == Some(OrdCmp(x, y))

\* Hash::hash of the payload type: feeds the value to the hasher
HashT(x, state) == Append(state, x)

\* variant: what #[derive(PartialEq)] on the two-field struct would give
TraceEqStructural(a, b) == a = b

\* PartialEq::eq (enabled: self.0 == rhs.0; disabled: derived on the one field)
TraceEq(a, b) == a.val = b.val

\* variant: ties broken by the captured sequences
TraceCmpWithTrace(a, b) ==
    IF a.val # b.val \/ ~TraceEnabled THEN OrdCmp(a.val, b.val)
    ELSE OrdCmp(Len(a.trace), Len(b.trace))

\* Ord::cmp
TraceCmp(a, b) == OrdCmp(a.val, b.val)

\* variant: ties broken by the captured sequences
TracePartialCmpWithTrace(a, b) == Some(TraceCmpWithTrace(a, b))

\* PartialOrd::partial_cmp
TracePartialCmp(a, b) == PartialCmpT(a.val, b.val)

\* feeds every element of xs to the hasher
RECURSIVE FeedAll(_, _)
FeedAll(xs, state) ==
    IF xs = <<>> THEN state ELSE FeedAll(Tail(xs), Append(state, Head(xs)))

\* variant: what #[derive(Hash)] on the two-field struct would give
TraceHashWithTrace(w, state) ==
    IF TraceEnabled THEN FeedAll(w.trace, HashT(w.val, state))
    ELSE HashT(w.val, state)

\* Hash::hash
TraceHash(w, state) == HashT(w.val, state)

-----------------------------------------------------------------------------
(* Text: what the std formatting machinery does with the crate's format strings *)

Digits == <<"0", "1", "2", "3", "4", "5", "6", "7", "8", "9",
            "a", "b", "c", "d", "e", "f">>

\* "{}" of an unsigned integer
RECURSIVE Dec(_)
Dec(n) == IF n < 10 THEN Digits[n + 1] ELSE Dec(n \div 10) \o Digits[(n % 10) + 1]

\* lower-case hexadecimal digits of an address
RECURSIVE Hex(_)
Hex(n) == IF n < 16 THEN Digits[n + 1] ELSE Hex(n \div 16) \o Digits[(n % 16) + 1]

RECURSIVE Spaces(_)
Spaces(n) == IF n <= 0 THEN "" ELSE " " \o Spaces(n - 1)

\* a width in a format spec with right alignment: pad on the left up to w,
\* never truncate
PadLeft(s, w) == Spaces(w - Len(s)) \o s

\* "{:?}" of the payload type (an unsigned integer)
DebugT(v) == Dec(v)

\* the characters of the byte values the symbol tables below use
Ascii == (46 :> ".") @@ (51 :> "3") @@ (69 :> "E") @@ (78 :> "N") @@ (90 :> "Z")
         @@ (95 :> "_") @@ (97 :> "a") @@ (102 :> "f") @@ (105 :> "i")
         @@ (109 :> "m") @@ (110 :> "n") @@ (111 :> "o") @@ (114 :> "r")
         @@ (115 :> "s")

\* what from_utf8_lossy puts for a byte that is no valid UTF-8 (U+FFFD)
ReplacementChar == "<U+FFFD>"

\* String::from_utf8_lossy, on bytes that are ASCII or never valid in UTF-8
RECURSIVE Utf8Lossy(_)
Utf8Lossy(bytes) ==
    IF bytes = <<>> THEN ""
    ELSE (IF Head(bytes) \in DOMAIN Ascii THEN Ascii[Head(bytes)] ELSE ReplacementChar)
         \o Utf8Lossy(Tail(bytes))

\* backtrace::demangle: Ok with the demangled text written, or Err
Demangle(mangled) ==
    IF mangled = "_ZN3fooE" THEN [ok |-> TRUE, name |-> "foo"]
    ELSE [ok |-> FALSE, name |-> ""]

-----------------------------------------------------------------------------
(* Symbol resolution *)

Symbol(name, addr, filename, lineno) ==
    [name |-> name, addr |-> addr, filename |-> filename, lineno |-> lineno]

\* The symbol information a process may have: per address, the symbols for
\* which backtrace::resolve invokes its callback (none: the callback is
\* never invoked).
StrippedTab == [ip \in {} |-> <<>>]

DebugInfoTab ==
    (3 :> << Symbol(Some(<<95, 90, 78, 51, 102, 111, 111, 69>>), Some(3),
                    Some(<<97, 46, 114, 115>>), Some(6)) >>)
    @@ (4 :> << Symbol(Some(<<102, 111, 111>>), Some(3), None, Some(12)),
                Symbol(Some(<<109, 255, 110>>), None,
                       Some(<<97, 46, 114, 115>>), Some(10)) >>)
    @@ (6 :> << Symbol(None, Some(6), Some(<<97, 255>>), None) >>)

SymTabs == {StrippedTab, DebugInfoTab}

Lookup(ip) == IF ip \in DOMAIN symtab THEN symtab[ip] ELSE <<>>

\* StackFrame { ip, name: None, addr: None, file: None, line: None }
NewStackFrame(ip) ==
    [ip |-> ip, name |-> None, addr |-> None, file |-> None, line |-> None]

\* the name the closure stores: lossy text, demangled when demangling succeeds
NameOf(sym) ==
    IF sym.name = None THEN None
    ELSE LET mangled == Utf8Lossy(sym.name[1])
             d == Demangle(mangled)
         IN  Some(IF d.ok THEN d.name ELSE mangled)

\* the closure given to backtrace::resolve in resolve
SymCallback(f, sym) ==
    [f EXCEPT !.name = NameOf(sym),
              !.addr = sym.addr,
              !.file = IF sym.filename = None THEN None
                       ELSE Some(Utf8Lossy(sym.filename[1])),
              !.line = sym.lineno]

\* backtrace::resolve(ip, cb): cb on each symbol found for ip
RECURSIVE BacktraceResolve(_, _)
BacktraceResolve(syms, f) ==
    IF syms = <<>> THEN f
    ELSE BacktraceResolve(Tail(syms), SymCallback(f, Head(syms)))

\* variant: no descriptor for an address without symbol
ResolveOneNoFrameWhenUnknown(ip) ==
    IF Lookup(ip) = <<>> THEN <<>>
    ELSE << BacktraceResolve(Lookup(ip), NewStackFrame(ip)) >>

\* the body of the closure mapped over the captured addresses in resolve,
\* as the sequence of descriptors it contributes (always exactly one)
ResolveOne(ip) == << BacktraceResolve(Lookup(ip), NewStackFrame(ip)) >>

RECURSIVE ResolveFrom(_, _)
ResolveFrom(ips, i) ==
    IF i > Len(ips) THEN <<>> ELSE ResolveOne(ips[i]) \o ResolveFrom(ips, i + 1)

\* fn resolve<T>(t: &Trace<T>) -> Vec<StackFrame>
resolve(t) == ResolveFrom(t.trace, 1)

-----------------------------------------------------------------------------
(* Debug formatting *)

\* minimum widths in the format strings "{:>4}" and "{:16p}"
IndexWidth == 4
PointerWidth == 16

UnknownText == "<unknown>"

\* "{:16p}": 0x and lower-case hex digits, right-aligned in 16 columns
PointerFmt(ip) == PadLeft("0x" \o Hex(ip), PointerWidth)

\* impl fmt::Debug for StackFrame
StackFrameDebug(f) ==
    LET n == IF f.line = None THEN UnknownText ELSE Dec(f.line[1])
    IN  PointerFmt(f.ip) \o " - "
        \o (IF f.name = None THEN UnknownText ELSE f.name[1])
        \o " (" \o (IF f.file = None THEN UnknownText ELSE f.file[1])
        \o ":" \o n \o ")"

\* variant: lines numbered from 1
FrameLineFromOne(i, frame) ==
    PadLeft(Dec(i + 1), IndexWidth) \o "  " \o StackFrameDebug(frame) \o "\n"

\* write!(f, "{:>4}  {:?}\n", i, &frame): the text one iteration writes
FrameLine(i, frame) ==
    PadLeft(Dec(i), IndexWidth) \o "  " \o StackFrameDebug(frame) \o "\n"

\* the for loop over resolve(self).into_iter().enumerate(): out is what the
\* formatter holds so far, i the index enumerate() yields next
RECURSIVE WriteFrames(_, _, _)
WriteFrames(out, frames, i) ==
    IF i >= Len(frames) THEN out
    ELSE WriteFrames(out \o FrameLine(i, frames[i + 1]), frames, i + 1)

\* variant: the tracing implementation in every build
TraceDebugAlwaysTraced(w) ==
    IF "trace" \in DOMAIN w
    THEN WriteFrames(DebugT(w.val) \o " at\n", resolve(w), 0)
    ELSE DebugT(w.val) \o " at\n"

\* impl fmt::Debug for Trace<T>, of the build's variant of mod trace, writing
\* to a formatter that accepts every write
TraceDebug(w) ==
    IF TraceEnabled
    THEN WriteFrames(DebugT(w.val) \o " at\n", resolve(w), 0)
    ELSE DebugT(w.val)

-----------------------------------------------------------------------------------------------------------------------------------------------------
(* The client's operations *)

Holds(i) == wrappers[i] # None
W(i) == wrappers[i][1]

Init ==
    /\ profile \in Profiles
    /\ backtrace \in BOOLEAN
    /\ symtab \in SymTabs
    /\ wrappers = [i \in Slots |-> None]
    /\ ret = [op |-> "start"]

Construct(op, i, v, site, frames, r) ==
    /\ wrappers' = [wrappers EXCEPT ![i] = Some(r.w)]
    /\ ret' = [op |-> op, id |-> i, v |-> v, site |-> site,
               reported |-> frames, walked |-> r.walked]
    /\ UNCHANGED <<profile, backtrace, symtab>>

\* let i = Trace::new(v), called from `site` with d caller frames on the
\* stack, of which the unwinder reports the first k frames of the whole stack
New(i, v, site, d, k) ==
    /\ ~Holds(i)
    /\ Construct("new", i, v, site, Reported(site, d, k),
                 TraceNew(v, Reported(site, d, k)))

\* let i: Trace<T> = v.into(), as try! does
From(i, v, site, d, k) ==
    /\ ~Holds(i)
    /\ Construct("from", i, v, site, Reported(site, d, k),
                 TraceFrom(v, Reported(site, d, k)))

\* i.unwrap(): consumes the wrapper.  `given` is the value the wrapper was
\* built from when it was built by the operation just before
Unwrap(i) ==
    /\ Holds(i)
    /\ ret' = [op |-> "unwrap", id |-> i, result |-> TraceUnwrap(W(i)),
               given |-> IF ret.op \in {"new", "from"} /\ ret.id = i
                         THEN Some(ret.v) ELSE None]
    /\ wrappers' = [wrappers EXCEPT ![i] = None]
    /\ UNCHANGED <<profile, backtrace, symtab>>

\* *i
Deref(i) ==
    /\ Holds(i)
    /\ ret' = [op |-> "deref", id |-> i, result |-> TraceDeref(W(i))]
    /\ wrappers' = [wrappers EXCEPT ![i] = Some(SharedBorrow(W(i)))]
    /\ UNCHANGED <<profile, backtrace, symtab>>

\* *i = v
DerefMut(i, v) ==
    /\ Holds(i)
    /\ ret' = [op |-> "deref_mut", id |-> i, v |-> v]
    /\ wrappers' = [wrappers EXCEPT ![i] = Some(TraceDerefMutStore(W(i), v))]
    /\ UNCHANGED <<profile, backtrace, symtab>>

Binary(op, i, j, result) ==
    /\ ret' = [op |-> op, a |-> i, b |-> j, result |-> result]
    /\ wrappers' = [x \in Slots |->
                      IF x \in {i, j} THEN Some(SharedBorrow(W(x))) ELSE wrappers[x]]
    /\ UNCHANGED <<profile, backtrace, symtab>>

\* i == j
Eq(i, j) == Holds(i) /\ Holds(j) /\ Binary("eq", i, j, TraceEq(W(i), W(j)))

\* i.partial_cmp(&j)
PartialCmp(i, j) ==
    Holds(i) /\ Holds(j) /\ Binary("partial_cmp", i, j, TracePartialCmp(W(i), W(j)))

\* i.cmp(&j)
Cmp(i, j) == Holds(i) /\ Holds(j) /\ Binary("cmp", i, j, TraceCmp(W(i), W(j)))

\* i.hash(&mut hasher), the hasher having been fed h0
Hash(i, h0) ==
    /\ Holds(i)
    /\ ret' = [op |-> "hash", id |-> i, h0 |-> h0, result |-> TraceHash(W(i), h0)]
    /\ wrappers' = [wrappers EXCEPT ![i] = Some(SharedBorrow(W(i)))]
    /\ UNCHANGED <<profile, backtrace, symtab>>

\* what the operation just before resolved for the wrapper in i, if it was
\* a resolve() or a debug-formatting of it: the descriptors, or the text
EarlierFrames(i) ==
    IF ret.op = "resolve" /\ ret.id = i THEN Some(ret.frames) ELSE None

EarlierOut(i) ==
    IF ret.op = "debug" /\ ret.id = i THEN Some(ret.out) ELSE None

\* format!("{:?}", i)
Debug(i) ==
    /\ Holds(i)
    /\ ret' = [op |-> "debug", id |-> i, out |-> TraceDebug(W(i)),
               earlier |-> EarlierFrames(i), earlierOut |-> EarlierOut(i)]
    /\ wrappers' = [wrappers EXCEPT ![i] = Some(SharedBorrow(W(i)))]
    /\ UNCHANGED <<profile, backtrace, symtab>>

\* let frames = i.resolve()
Resolve(i) ==
    /\ ResolveAvailable
    /\ Holds(i)
    /\ ret' = [op |-> "resolve", id |-> i, frames |-> resolve(W(i)),
               earlier |-> EarlierFrames(i), earlierOut |-> EarlierOut(i)]
    /\ wrappers' = [wrappers EXCEPT ![i] = Some(SharedBorrow(W(i)))]
    /\ UNCHANGED <<profile, backtrace, symtab>>

\* let j = i.clone(), called from `site` on a stack like New's
Clone(i, j, site, d, k) ==
    /\ Holds(i) /\ ~Holds(j)
    /\ LET r == TraceClone(W(i), Reported(site, d, k))
       IN  /\ wrappers' = [wrappers EXCEPT ![j] = Some(r.w),
                                           ![i] = Some(SharedBorrow(W(i)))]
           /\ ret' = [op |-> "clone", src |-> i, dst |-> j, walked |-> r.walked]
    /\ UNCHANGED <<profile, backtrace, symtab>>

Next ==
    \/ \E i \in Slots, v \in Values, site \in CallSites, k \in 0 .. (MaxDepth + 2) :
         New(i, v, site, MaxDepth, k)
    \/ \E i \in Slots, v \in Values, site \in CallSites, k \in 0 .. (MaxDepth + 2) :
         From(i, v, site, MaxDepth, k)
    \/ \E i \in Slots : Unwrap(i)
    \/ \E i \in Slots : Deref(i)
    \/ \E i \in Slots, v \in Values : DerefMut(i, v)
    \/ \E i, j \in Slots : Eq(i, j)
    \/ \E i, j \in Slots : PartialCmp(i, j)
    \/ \E i, j \in Slots : Cmp(i, j)
    \/ \E i \in Slots, h0 \in HasherStates : Hash(i, h0)
    \/ \E i \in Slots : Debug(i)
    \/ \E i \in Slots : Resolve(i)
    \/ \E i, j \in Slots, site \in CallSites, k \in 0 .. (MaxDepth + 2) :
         Clone(i, j, site, MaxDepth, k)

\* the program of the crate's documentation and its variations: the client has
\* one wrapper, which it builds, formats, resolves and unwraps
NextFmt ==
    \/ \E v \in FmtValues, site \in CallSites, k \in 0 .. (MaxFmtDepth + 2) :
         New("a", v, site, MaxFmtDepth, k)
    \/ Debug("a")
    \/ Resolve("a")
    \/ Unwrap("a")

Spec == Init /\ [][Next]_vars

SpecFmt == Init /\ [][NextFmt]_vars

-----------------------------------------------------------------------------
(* Properties *)

Constructed == ret.op \in {"new", "from"}

\* the addresses of the reported frames from the third on, in order
CallerIps(reported) ==
    IF Len(reported) <= 2 THEN <<>>
    ELSE [j \in 1 .. (Len(reported) - 2) |-> reported[j + 2].ip]

\* an index right-aligned in a field of at least four columns
IndexField(i) ==
    LET s == Dec(i) IN IF Len(s) >= 4 THEN s ELSE Spaces(4 - Len(s)) \o s

\* the lines for frames i+1 .. Len(frames), numbered from i
RECURSIVE ExpectedLines(_, _)
ExpectedLines(frames, i) ==
    IF i >= Len(frames) THEN ""
    ELSE IndexField(i) \o "  " \o StackFrameDebug(frames[i + 1]) \o "\n"
         \o ExpectedLines(frames, i + 1)

ExpectedDebug(v, frames) == DebugT(v) \o " at\n" \o ExpectedLines(frames, 0)

\* C1: Trace::new(v).unwrap() (or v.into() then unwrap) returns v, in every
\* build mode and whatever stack was captured.
C1_RoundTrip ==
    (ret.op = "unwrap" /\ ret.given # None) => ret.result = ret.given[1]

C1_Witness ==
    /\ ret.op = "unwrap" /\ ret.given = Some(1) /\ ret.result = 1
    /\ TraceEnabled

\* C2: eq, partial_cmp, cmp and hash of wrappers give exactly the result of
\* the operation on the inner values; the captured traces play no part.
C2_ForwardsToInner ==
    /\ ret.op = "eq" => ret.result = (W(ret.a).val = W(ret.b).val)
    /\ ret.op = "partial_cmp"
         => ret.result = PartialCmpT(W(ret.a).val, W(ret.b).val)
    /\ ret.op = "cmp" => ret.result = OrdCmp(W(ret.a).val, W(ret.b).val)
    /\ ret.op = "hash" => ret.result = HashT(W(ret.id).val, ret.h0)

C2_Witness ==
    /\ TraceEnabled
    /\ ret.op = "eq" /\ ret.result = TRUE
    /\ W(ret.a).trace # W(ret.b).trace

\* C3: in a trace-capable build the captured sequence is exactly the addresses
\* of the reported frames after the first two, in order; with two frames or
\* fewer reported it is empty.
C3_CaptureSkipsTwo ==
    (Constructed /\ TraceEnabled)
        => W(ret.id).trace = CallerIps(ret.reported)

C3_Witness ==
    /\ Constructed /\ TraceEnabled
    /\ Len(ret.reported) >= 4
    /\ Len(W(ret.id).trace) = Len(ret.reported) - 2

\* C4 as stated: a capture from a stack at least two frames deep is non-empty
\* and starts at the call site, not at backtrace::trace or Trace::new.
C4_AsStated ==
    (Constructed /\ TraceEnabled /\ Len(ret.reported) >= 2)
        => /\ W(ret.id).trace # <<>>
           /\ W(ret.id).trace[1] = ret.site
           /\ W(ret.id).trace[1] \notin {TraceEntryIp, NewIp}

\* C4, amended: the same of a stack at least three frames deep (the two
\* skipped frames and at least the caller's).
C4_ThreeDeep ==
    (Constructed /\ TraceEnabled /\ Len(ret.reported) >= 3)
        => /\ W(ret.id).trace # <<>>
           /\ W(ret.id).trace[1] = ret.site
           /\ W(ret.id).trace[1] \notin {TraceEntryIp, NewIp}

C4_Witness ==
    /\ Constructed /\ TraceEnabled
    /\ Len(ret.reported) = 3
    /\ W(ret.id).trace = <<ret.site>>

\* C5: resolve returns one descriptor per captured address, in order, each
\* with that address as ip; an address with no symbol still gets one, with
\* name, addr, file and line absent.
C5_OnePerAddress ==
    ret.op = "resolve" =>
        LET t  == W(ret.id).trace
            fs == ret.frames
        IN  /\ Len(fs) = Len(t)
            /\ \A j \in 1 .. Len(t) :
                 /\ fs[j].ip = t[j]
                 /\ Lookup(t[j]) = <<>> =>
                      /\ fs[j].name = None /\ fs[j].addr = None
                      /\ fs[j].file = None /\ fs[j].line = None

C5_Witness ==
    /\ ret.op = "resolve"
    /\ Len(ret.frames) >= 2
    /\ \E j \in 1 .. Len(ret.frames) : Lookup(W(ret.id).trace[j]) = <<>>
    /\ \E j \in 1 .. Len(ret.frames) : ret.frames[j].name # None

C6_SameAgain ==
    /\ (ret.op = "resolve" /\ ret.earlier # None) => ret.frames = ret.earlier[1]
    /\ (ret.op = "resolve" /\ ret.earlierOut # None)
         => ret.earlierOut[1] = ExpectedDebug(W(ret.id).val, ret.frames)
    /\ (ret.op = "debug" /\ ret.earlierOut # None) => ret.out = ret.earlierOut[1]
    /\ (ret.op = "debug" /\ ret.earlier # None)
         => ret.out = ExpectedDebug(W(ret.id).val, ret.earlier[1])
    /\ \A i \in Slots : (Holds(i) /\ TraceEnabled) => DOMAIN W(i) = {"val", "trace"}

C6_LeavesWrapper ==
    ret'.op \in {"resolve", "debug"} => wrappers' = wrappers

\* C6: resolving or debug-formatting a wrapper right after resolving or
\* debug-formatting it gives the same descriptors (the same text), and neither
\* changes the wrapper, which holds a value and a captured sequence only.
C6_Idempotent == [](C6_SameAgain) /\ [][C6_LeavesWrapper]_vars

C6_Witness ==
    /\ ret.op = "resolve" /\ ret.earlier # None
    /\ Len(ret.frames) >= 2
    /\ \E j \in 1 .. Len(ret.frames) : ret.frames[j].name # None

C8_DisabledInvisible ==
    ~TraceEnabled =>
        /\ ret.op = "debug" => ret.out = DebugT(W(ret.id).val)
        /\ (ret.op = "debug" /\ W(ret.id).val = 123) => ret.out = "123"
        /\ \A i \in Slots : Holds(i) => DOMAIN W(i) = {"val"}
        /\ Constructed => ~ret.walked

C8_Witness ==
    /\ ~TraceEnabled
    /\ ret.op = "debug" /\ W(ret.id).val = 123 /\ ret.out = "123"

C9_CloneCopies ==
    ret.op = "clone" => (W(ret.dst) = W(ret.src) /\ ~ret.walked)

C9_TraceKept ==
    \A i \in Slots :
        (TraceEnabled /\ wrappers[i] # None /\ wrappers'[i] # None)
            => wrappers'[i][1].trace = wrappers[i][1].trace

\* C9: in a trace-capable build no operation on a wrapper changes its captured
\* sequence, and clone gives a wrapper with the same value and the same
\* captured sequence without walking the stack.
C9_WriteOnce == [](C9_CloneCopies) /\ [][C9_TraceKept]_vars

C9_Witness ==
    /\ TraceEnabled
    /\ ret.op = "clone"
    /\ W(ret.src).trace # <<>>
    /\ W(ret.dst).trace = W(ret.src).trace

C10_Mode ==
    /\ Constructed =>
         (ret.walked <=> (profile \in {"debug", "test"} \/ backtrace))
    /\ \A i \in Slots : Holds(i) =>
         /\ ("trace" \in DOMAIN W(i)) <=> (profile \in {"debug", "test"} \/ backtrace)
         /\ (ENABLED Resolve(i)) <=> backtrace
    /\ ret.op = "resolve" => backtrace

C10_ModeFixed == profile' = profile /\ backtrace' = backtrace

\* C10: the mode never changes; it is Disabled iff the profile is neither
\* debug nor test and the backtrace feature is off; every construction walks
\* the stack in the other modes and none does in Disabled; resolve() can be
\* called iff the backtrace feature is on.
C10_BuildMode == [](C10_Mode) /\ [][C10_ModeFixed]_vars

C10_Witness ==
    /\ ret.op = "from" /\ ret.walked
    /\ profile = "release" /\ backtrace
    /\ ENABLED Resolve(ret.id)

====
